---------------------------- MODULE Spec2Model ----------------------------
(***************************************************************************)
(* A model of the LLM quiz solver: the answer cleanup and extraction of    *)
(* agent.py, the conversation driver solve_with_llm with its caller        *)
(* solve_quiz, and the quiz chain controllers process_quiz of server.py    *)
(* and simple_server.py.                                                   *)
(*                                                                         *)
(* Text is a sequence of symbols.  The symbols "b" (one backtick), "\n",   *)
(* " ", "\t" and "x" are single characters ("x" is any character that is   *)
(* neither white space nor a backtick); every other symbol stands for one  *)
(* fixed substring: "R" = 'TOOL: RUN_CODE', "C" = 'TOOL: SCRAPE', "S" =    *)
(* 'TOOL: SUBMIT', "A" = 'ANSWER:', "U" = 'URL:', "p" = 'python' and "E" = *)
(* 'ERROR: Max iterations reached'.  In the texts given to the answer      *)
(* normalization "0", "1", "4" are digits, ".", "-", "[", "]", "{", "}",   *)
(* "#" and "/" are themselves, "x" is a letter, and "t" = 'true', "T" =    *)
(* 'TRUE', "f" = 'false', "y" = 'yes', "n" = 'no'.  In a URL "h" = 'http', *)
(* "x" is a letter and ":", "/", "?" are themselves.                       *)
(***************************************************************************)
EXTENDS Integers, Sequences, FiniteSets, TLC

VARIABLES
    \* clean_answer applied twice to one input (agent.py)
    c_pc, c_in, c_once, c_twice,
    \* solve_quiz and solve_with_llm (agent.py)
    d_pc,        \* where solve_quiz / solve_with_llm stands
    iteration,   \* iterations of the for loop completed so far
    messages,    \* the conversation, oldest first: <<role, content kind>>
    last,        \* what the driver reads off the latest LLM response
    dispatched,  \* the branch the latest response took
    final_answer, \* the value solve_with_llm returned
    exhausted,   \* solve_with_llm ended at line 159
    posted,      \* the answers solve_quiz sent to the submit endpoint
    llm_calls,   \* number of client.chat calls
    tool_calls,  \* number of execute and secondary scrape calls
    answerless,  \* no response so far held a submit marker or an answer
    executed,    \* how the exec of LLM code ended in the current round
    \* process_quiz (server.py, simple_server.py)
    variant,        \* "server" or "simple": whose process_quiz runs
    p_pc,           \* where process_quiz stands
    current_url,
    clock,          \* time.time() - start_time, in seconds
    remaining_time, \* server.py line 118, simple_server.py line 424
    attempt,        \* the for loop's variable (server.py line 121)
    sub_timeout,    \* the timeout of the asyncio.wait_for in flight
    stats,
    grading,        \* the latest result of submit_answer
    tries,          \* how each attempt at the current question ended
    ended_by,       \* why the while loop was left
    timed_out,      \* a solve attempt ended in asyncio.TimeoutError
    stats_saved,    \* the final statistics step has run
    solve_calls, load_calls, submit_calls,
    payload_size,  \* bytes of the serialized submission (server.py line 159)
    solves,        \* for each URL, the solve calls made for it, counted up to MaxCount
    given,         \* for each URL, the gradings that named it as next URL, up to MaxCount
    \* extract_answer applied to one response (agent.py)
    e_pc, e_in, e_out,
    \* the answer normalization (question_solver.py, server.py)
    n_pc,      \* "input", then "extracted" or "raised", then "parsed"
    n_type,    \* the declared answer type
    n_in,      \* the raw text
    n_out,     \* what _extract_final_answer gave
    n_parsed,  \* what parse_answer gave
    \* the target of a SCRAPE round (agent.py lines 124-129)
    u_pc, quiz_url, scrape_url, fetched,
    \* handle_quiz (server.py, simple_server.py)
    h_pc,          \* "received", then "answered"
    h_variant,     \* "server" or "simple": whose handle_quiz runs
    SECRET_KEY,    \* the configured secret
    payload,       \* the body of the POST request
    status_code,   \* the status of the response
    content_url,   \* the "url" of the response content
    tasks_created, \* the process_quiz tasks started by asyncio.create_task
    \* run_reevals (run_reevals.py) over solve_quiz and core submit
    r_pc,          \* "loop", then "done"
    urls,          \* the list the for loop walks and appends to
    r_i,           \* how many of its entries the loop has taken
    results,       \* one boolean for each question
    printed,       \* what was printed for each question
    posts,         \* how the POST of each question ended
    correct_count, \* the summary
    total_count,
    \* two process_quiz tasks of one server process (server.py)
    t_pc,          \* for each task: "while", "stats" or "done"
    t_url,         \* for each task, its current_url
    t_stats,       \* for each task, its stats
    files          \* the files written, by path: who wrote last, and what

cleanVars == <<c_pc, c_in, c_once, c_twice>>

driverVars == <<d_pc, iteration, messages, last, dispatched, final_answer, exhausted, posted,
                llm_calls, tool_calls, answerless, executed>>

chainVars == <<variant, p_pc, current_url, clock, remaining_time, attempt, sub_timeout,
               stats, grading, tries, ended_by, timed_out, stats_saved,
               solve_calls, load_calls, submit_calls, payload_size,
               solves, given>>

extractVars == <<e_pc, e_in, e_out>>

\* the state of the functions that are checked on their own
normVars == <<n_pc, n_type, n_in, n_out, n_parsed>>

scrapeVars == <<u_pc, quiz_url, scrape_url, fetched>>

frontVars == <<h_pc, h_variant, SECRET_KEY, payload, status_code, content_url, tasks_created>>

reevalVars == <<r_pc, urls, r_i, results, printed, posts, correct_count, total_count>>

taskVars == <<t_pc, t_url, t_stats, files>>

pureVars == <<extractVars, normVars, scrapeVars, frontVars, reevalVars, taskVars>>

vars == <<cleanVars, driverVars, chainVars, pureVars>>

--------------------------------------------------------------------------
(* Bounds of the model *)

\* longest input text given to clean_answer
MaxCleanLen == 6

\* a response given to extract_answer is made of at most this many fragments
MaxExtractFrags == 5

\* a text given to the answer normalization is made of at most this many
\* fragments
MaxNormFrags == 4

\* longest URL an LLM response asks to scrape, in symbols
MaxRefLen == 5

\* the questions one of two concurrent chains answers
MaxChainLen == 2

\* per-URL counts are kept up to this value
MaxCount == 3

\* the questions run_reevals walks
MaxQuestions == 4

\* an LLM response is made of at most this many fragments
MaxFrags == 3

--------------------------------------------------------------------------
(* Python string primitives on symbol sequences *)

NL == "\n"
BT == "b"
Fence == <<BT, BT, BT>>

\* str.strip() with no argument, and the regex class \s
Whitespace == {" ", "\n", "\t"}

\* the argument of answer.strip(" \t")
Blank == {" ", "\t"}

MinOf(S) == CHOOSE i \in S : \A j \in S : i <= j

MaxOf(S) == CHOOSE i \in S : \A j \in S : i >= j

\* s[a:] with a 1-based
From(s, a) == SubSeq(s, a, Len(s))

\* s.strip(W): drop the characters of W from both ends
strip(s, W) ==
    LET keep == {i \in 1..Len(s) : s[i] \notin W}
    IN  IF keep = {} THEN <<>> ELSE SubSeq(s, MinOf(keep), MaxOf(keep))

\* p occurs in s at position i
At(s, p, i) == i >= 1 /\ i + Len(p) - 1 <= Len(s) /\ SubSeq(s, i, i + Len(p) - 1) = p

startswith(s, p) == At(s, p, 1)

endswith(s, p) == At(s, p, Len(s) - Len(p) + 1)

\* s.find(p) as a 1-based position, 0 where Python gives -1
find(s, p) ==
    LET hits == {i \in 1..Len(s) : At(s, p, i)}
    IN  IF hits = {} THEN 0 ELSE MinOf(hits)

\* p in s
contains(s, p) == find(s, p) # 0

--------------------------------------------------------------------------
(* agent.py: clean_answer *)

clean_answer(answer) ==
    LET a0 == strip(answer, Whitespace)
        a1 == IF startswith(a0, Fence)
              THEN LET first_newline == find(a0, <<NL>>)
                       b == IF first_newline # 0 THEN From(a0, first_newline + 1) ELSE a0
                       c == IF endswith(b, Fence) THEN SubSeq(b, 1, Len(b) - 3) ELSE b
                   IN  strip(c, Whitespace)
              ELSE a0
    IN  strip(a1, Blank)

--------------------------------------------------------------------------
(* Regular expression search (re.search with re.DOTALL) on symbol          *)
(* sequences.  A matcher M(s, a) gives the set holding group 1 of the      *)
(* match that starts at position a, or {} when nothing matches there.      *)

\* first position from i on that holds no white space (Len(s) + 1 if none)
SkipSpace(s, i) == MinOf({j \in i..(Len(s) + 1) : j = Len(s) + 1 \/ s[j] \notin Whitespace})

\* ```(?:python)?\n at position k: the position right after it, 0 if no match
FenceOpenAt(s, k) ==
    IF ~At(s, Fence, k) THEN 0
    ELSE IF At(s, <<"p", NL>>, k + 3) THEN k + 5
    ELSE IF At(s, <<NL>>, k + 3) THEN k + 4
    ELSE 0

\* a lazy group of at least `least` characters from position c, closed by
\* ```: the position of that closing fence, 0 if there is none
CloseAfter(s, c, least) ==
    LET hits == {e \in (c + least)..Len(s) : At(s, Fence, e)}
    IN  IF hits = {} THEN 0 ELSE MinOf(hits)

\* the group of the leftmost match among the start positions
\* (groups maps each start position to the matcher's result there)
Leftmost(groups) ==
    LET ok == {a \in DOMAIN groups : groups[a] # {}}
    IN  IF ok = {} THEN {} ELSE groups[MinOf(ok)]

Positions(s, sym) == {a \in 1..Len(s) : s[a] = sym}

TheOne(S) == CHOOSE g \in S : TRUE

\* ANSWER:\s*```(?:python)?\n(.+?)```
MatchFenced(s, a) ==
    IF s[a] # "A" THEN {}
    ELSE LET c == FenceOpenAt(s, SkipSpace(s, a + 1))
             e == IF c = 0 THEN 0 ELSE CloseAfter(s, c, 1)
         IN  IF e = 0 THEN {} ELSE {SubSeq(s, c, e - 1)}

\* ANSWER:\s*(.+)  : \s* is greedy and gives a character back when nothing
\* but white space follows the marker
MatchInline(s, a) ==
    IF s[a] # "A" \/ a = Len(s) THEN {}
    ELSE LET k == SkipSpace(s, a + 1)
         IN  IF k <= Len(s) THEN {From(s, k)} ELSE {<<s[Len(s)]>>}

\* TOOL:\s*SUBMIT\s*\n.*?  : the white space after the marker holds a line
\* break; gives the first position at which .*? may end, 0 if no match
AfterSubmit(s, t) ==
    IF s[t] # "S" THEN 0
    ELSE LET k == SkipSpace(s, t + 1)
         IN  IF \E n \in (t + 1)..(k - 1) : s[n] = NL THEN k ELSE 0

\* TOOL:\s*SUBMIT\s*\n.*?ANSWER:\s*```(?:python)?\n(.+?)```
MatchSubmitFenced(s, t) ==
    LET k == AfterSubmit(s, t)
    IN  IF k = 0 THEN {} ELSE Leftmost([a \in {n \in k..Len(s) : s[n] = "A"} |-> MatchFenced(s, a)])

\* TOOL:\s*SUBMIT\s*\n.*?ANSWER:\s*(.+)
MatchSubmitInline(s, t) ==
    LET k == AfterSubmit(s, t)
    IN  IF k = 0 THEN {} ELSE Leftmost([a \in {n \in k..Len(s) : s[n] = "A"} |-> MatchInline(s, a)])

\* ```python\n(.*?)```
MatchCode(s, k) ==
    IF ~At(s, Fence \o <<"p", NL>>, k) THEN {}
    ELSE LET e == CloseAfter(s, k + 5, 0)
         IN  IF e = 0 THEN {} ELSE {SubSeq(s, k + 5, e - 1)}

\* URL:\s*(\S+)  : the marker, then a character that is not white space
MatchUrl(s, u) ==
    IF s[u] # "U" THEN {}
    ELSE LET k == SkipSpace(s, u + 1)
         IN  IF k > Len(s) THEN {}
             ELSE {SubSeq(s, k, MinOf({j \in k..Len(s) : j = Len(s) \/ s[j + 1] \in Whitespace}))}

--------------------------------------------------------------------------
(* agent.py: extract_answer and extract_code *)

BeforeBlankLine_FirstNewline(answer) ==
    LET cut == find(answer, <<NL>>)
    IN  IF cut # 0 THEN SubSeq(answer, 1, cut - 1) ELSE answer

\* answer.split("\n\n")[0] when "\n\n" in answer
BeforeBlankLine(answer) ==
    LET cut == find(answer, <<NL, NL>>)
    IN  IF cut # 0 THEN SubSeq(answer, 1, cut - 1) ELSE answer

\* lines 187-193 and 206-210: clean, stop at a double newline, strip
InlineAnswer(group) == strip(BeforeBlankLine(clean_answer(group)), Whitespace)

extract_answer(response) ==
    LET m1 == Leftmost([a \in Positions(response, "A") |-> MatchFenced(response, a)])
        m2 == Leftmost([a \in Positions(response, "A") |-> MatchInline(response, a)])
        m3 == Leftmost([a \in Positions(response, "S") |-> MatchSubmitFenced(response, a)])
        m4 == Leftmost([a \in Positions(response, "S") |-> MatchSubmitInline(response, a)])
    IN  IF m1 # {} THEN strip(TheOne(m1), Whitespace)
        ELSE IF m2 # {} THEN InlineAnswer(TheOne(m2))
        ELSE IF m3 # {} THEN strip(TheOne(m3), Whitespace)
        ELSE IF m4 # {} THEN InlineAnswer(TheOne(m4))
        ELSE <<>>

extract_code(response) ==
    LET m == Leftmost([a \in 1..Len(response) |-> MatchCode(response, a)])
    IN  IF m # {} THEN strip(TheOne(m), Whitespace) ELSE <<>>

--------------------------------------------------------------------------
(* tools/core/question_solver.py: _extract_final_answer *)

Digits == {"0", "1", "4"}

\* the characters of the regex class \w, words counting as their letters
WordChars == Digits \cup {"x", "t", "T", "f", "y", "n"}

\* s.split("\n"): the lines of s, at least one
RECURSIVE split(_)
split(s) ==
    LET cut == find(s, <<NL>>)
    IN  IF cut = 0 THEN <<s>> ELSE <<SubSeq(s, 1, cut - 1)>> \o split(From(s, cut + 1))

\* first position from i on that holds no character of W (Len(s) + 1 if none)
SkipOver(s, i, W) == MinOf({j \in i..(Len(s) + 1) : j = Len(s) + 1 \/ s[j] \notin W})

\* ```(?:\w+)?\s*([\s\S]*?)``` at position k (line 325)
MatchBlock(s, k) ==
    IF ~At(s, Fence, k) THEN {}
    ELSE LET g == SkipOver(s, SkipOver(s, k + 3, WordChars), Whitespace)
             e == CloseAfter(s, g, 0)
         IN  IF e = 0 THEN {} ELSE {SubSeq(s, g, e - 1)}

\* -?\d+\.?\d* at position a (line 347): the matched token
MatchNumber(s, a) ==
    LET d == IF a <= Len(s) /\ s[a] = "-" THEN a + 1 ELSE a
        i == SkipOver(s, d, Digits)
        j == IF i <= Len(s) /\ s[i] = "." THEN SkipOver(s, i + 1, Digits) ELSE i
    IN  IF i = d THEN {} ELSE {SubSeq(s, a, j - 1)}

\* str(int(float(num))) of a token without a point (line 351)
IntText(num) ==
    LET neg == num # <<>> /\ num[1] = "-"
        ds == IF neg THEN Tail(num) ELSE num
        nz == {i \in 1..Len(ds) : ds[i] # "0"}
    IN  IF nz = {} THEN <<"0">>
        ELSE (IF neg THEN <<"-">> ELSE <<>>) \o From(ds, MinOf(nz))

\* str.lower() on symbols
lower(s) == [i \in 1..Len(s) |-> IF s[i] = "T" THEN "t" ELSE s[i]]

\* lines 330-337: the last line that is not empty, not a comment and not
\* a bare fence; <<>> if there is none
AnswerLine(lines) ==
    LET ok == {i \in 1..Len(lines) :
                 LET line == strip(lines[i], Whitespace)
                 IN  /\ line # <<>>
                     /\ ~startswith(line, <<"#">>)
                     /\ ~startswith(line, <<"/", "/">>)
                     /\ line # Fence}
    IN  IF ok = {} THEN <<>> ELSE strip(lines[MaxOf(ok)], Whitespace)

Returned(v) == [raised |-> "none", value |-> v]

Raised(e) == [raised |-> e, value |-> <<>>]

extract_final_answer(text, answer_type) ==
    LET stripped == strip(text, Whitespace)
        fenced == contains(stripped, Fence)                             \* line 322
        code_match == IF fenced
                      THEN Leftmost([k \in 1..Len(stripped) |-> MatchBlock(stripped, k)])
                      ELSE {}
        clean_text == IF code_match # {} THEN strip(TheOne(code_match), Whitespace)
                      ELSE stripped
        answer_line == AnswerLine(split(clean_text))
        answer0 == IF answer_line # <<>> THEN answer_line ELSE clean_text   \* line 339
        answer == strip(strip(answer0, {BT}), {"[", "]"})                \* lines 342-343
    IN  CASE answer_type = "number" ->
               \* `import re` at line 324 makes re a local name, bound only
               \* when the branch of line 322 ran
               IF ~fenced THEN Raised("UnboundLocalError")
               ELSE LET match == Leftmost([a \in 1..Len(answer) |-> MatchNumber(answer, a)])
                    IN  IF match = {} THEN Returned(strip(answer, Whitespace))
                        ELSE IF ~contains(TheOne(match), <<".">>)
                             THEN Returned(IntText(TheOne(match)))
                             ELSE Returned(TheOne(match))
          [] answer_type = "boolean" ->
               IF contains(lower(answer), <<"t">>) \/ answer = <<"1">> THEN Returned(<<"t">>)
               ELSE IF contains(lower(answer), <<"f">>) \/ answer = <<"0">>
                    THEN Returned(<<"f">>)
               ELSE Returned(strip(answer, Whitespace))
          [] answer_type = "json" ->
               IF ~contains(answer, <<"{">>) THEN Returned(strip(answer, Whitespace))
               ELSE IF ~contains(answer, <<"}">>) THEN Raised("ValueError")  \* rindex
               ELSE LET start == find(answer, <<"{">>)
                        end == MaxOf(Positions(answer, "}"))
                    IN  Returned(SubSeq(answer, start, end))
          [] OTHER -> Returned(strip(answer, Whitespace))

--------------------------------------------------------------------------
(* agent.py lines 124-129: the target of a SCRAPE round, with             *)
(* urllib.parse.urljoin for URLs without "." segments, parameters and      *)
(* fragments                                                               *)

Letters == {"h", "x"}

\* s.split("/")
RECURSIVE SplitPath(_)
SplitPath(s) ==
    LET cut == find(s, <<"/">>)
    IN  IF cut = 0 THEN <<s>> ELSE <<SubSeq(s, 1, cut - 1)>> \o SplitPath(From(s, cut + 1))

\* "/".join(segments)
RECURSIVE JoinPath(_)
JoinPath(segments) ==
    IF segments = <<>> THEN <<>>
    ELSE IF Len(segments) = 1 THEN segments[1]
    ELSE segments[1] \o <<"/">> \o JoinPath(Tail(segments))

\* urlparse(url, default): scheme, netloc, path and query
urlparse(url, default) ==
    LET c == find(url, <<":">>)
        schemed == c > 1 /\ \A i \in 1..(c - 1) : url[i] \in Letters
        rest == IF schemed THEN From(url, c + 1) ELSE url
        slashes == startswith(rest, <<"/", "/">>)
        delims == {i \in 3..Len(rest) : rest[i] \in {"/", "?"}}
        stop == IF delims = {} THEN Len(rest) + 1 ELSE MinOf(delims)
        after == IF slashes THEN From(rest, stop) ELSE rest
        q == find(after, <<"?">>)
    IN  [scheme |-> IF schemed THEN SubSeq(url, 1, c - 1) ELSE default,
         netloc |-> IF slashes THEN SubSeq(rest, 3, stop - 1) ELSE <<>>,
         path   |-> IF q = 0 THEN after ELSE SubSeq(after, 1, q - 1),
         query  |-> IF q = 0 THEN <<>> ELSE From(after, q + 1)]

\* urlunparse for an http URL
urlunparse(scheme, netloc, path, query) ==
    LET rooted == IF path # <<>> /\ path[1] # "/" THEN <<"/">> \o path ELSE path
        located == IF netloc # <<>> \/ ~startswith(path, <<"/", "/">>)
                   THEN <<"/", "/">> \o netloc \o rooted
                   ELSE path
    IN  scheme \o <<":">> \o located \o (IF query # <<>> THEN <<"?">> \o query ELSE <<>>)

\* segments[1:-1] = filter(None, segments[1:-1])
DropEmptyInside(segments) ==
    IF Len(segments) <= 2 THEN segments
    ELSE <<segments[1]>>
         \o SelectSeq(SubSeq(segments, 2, Len(segments) - 1), LAMBDA g : g # <<>>)
         \o <<segments[Len(segments)]>>

\* urljoin(base, url) for an http base
urljoin(base, url) ==
    IF url = <<>> THEN base
    ELSE LET b == urlparse(base, <<>>)
             u == urlparse(url, b.scheme)
             parts == SplitPath(b.path)
             base_parts == IF parts[Len(parts)] # <<>> THEN SubSeq(parts, 1, Len(parts) - 1)
                           ELSE parts
             segments == IF startswith(u.path, <<"/">>) THEN SplitPath(u.path)
                         ELSE DropEmptyInside(base_parts \o SplitPath(u.path))
             joined == JoinPath(segments)
         IN  IF u.scheme # b.scheme THEN url
             ELSE IF u.netloc # <<>> THEN urlunparse(u.scheme, u.netloc, u.path, u.query)
             ELSE IF u.path = <<>>
                  THEN urlunparse(u.scheme, b.netloc, b.path,
                                  IF u.query = <<>> THEN b.query ELSE u.query)
             ELSE urlunparse(u.scheme, b.netloc, IF joined = <<>> THEN <<"/">> ELSE joined,
                             u.query)

\* lines 124-127: the URL given to scrape
ScrapeTarget(base, url) ==
    IF ~startswith(url, <<"h">>) THEN urljoin(base, url) ELSE url

--------------------------------------------------------------------------
(* server.py: parse_answer.  A value is its Python type and its JSON text. *)

Value(tag, text) == [tag |-> tag, text |-> text]

\* the digits of s from position i on, and nothing else
AllDigits(s, i) == \A j \in i..Len(s) : s[j] \in Digits

\* int(answer) succeeds: white space, an optional sign, digits
IsInt(s) ==
    LET t == strip(s, Whitespace)
        d == IF t # <<>> /\ t[1] = "-" THEN 2 ELSE 1
    IN  d <= Len(t) /\ AllDigits(t, d)

\* float(answer) succeeds on a text with a point: digits on at least one
\* side of the one point
IsFloat(s) ==
    LET t == strip(s, Whitespace)
        d == IF t # <<>> /\ t[1] = "-" THEN 2 ELSE 1
        dot == find(t, <<".">>)
    IN  /\ dot >= d
        /\ Len(t) > d
        /\ \A j \in d..Len(t) : j = dot \/ t[j] \in Digits

\* json.dumps of the float: an integral value keeps ".0"
FloatText(s) ==
    LET t == strip(s, Whitespace)
        neg == t[1] = "-"
        dot == find(t, <<".">>)
        whole == IntText(SubSeq(t, IF neg THEN 2 ELSE 1, dot - 1))
        frac == From(t, dot + 1)
        nz == {i \in 1..Len(frac) : frac[i] # "0"}
        kept == IF nz = {} THEN <<"0">> ELSE SubSeq(frac, 1, MaxOf(nz))
    IN  (IF neg THEN <<"-">> ELSE <<>>) \o whole \o <<".">> \o kept

\* json.loads(answer) succeeds: in these texts, on an empty object
IsJson(s) ==
    LET t == strip(s, Whitespace)
    IN  /\ Len(t) >= 2
        /\ t[1] = "{"
        /\ t[Len(t)] = "}"
        /\ \A j \in 2..(Len(t) - 1) : t[j] \in Whitespace

\* server.py lines 254-289, for an answer that is a string and a type
\* that is not a file type
parse_answer(answer, answer_type) ==
    CASE answer_type = "number" ->
           IF contains(answer, <<".">>)
           THEN IF IsFloat(answer) THEN Value("float", FloatText(answer))
                ELSE Value("str", answer)
           ELSE IF IsInt(answer) THEN Value("int", IntText(strip(answer, Whitespace)))
                ELSE Value("str", answer)
      [] answer_type = "boolean" ->
           IF lower(answer) \in {<<"t">>, <<"1">>, <<"y">>} THEN Value("bool", <<"t">>)
           ELSE IF lower(answer) \in {<<"f">>, <<"0">>, <<"n">>} THEN Value("bool", <<"f">>)
           ELSE Value("str", answer)
      [] answer_type = "json" ->
           IF IsJson(answer) THEN Value("object", <<"{", "}">>)
           ELSE Value("str", answer)
      [] OTHER -> Value("str", answer)

--------------------------------------------------------------------------
(* agent.py: solve_with_llm and solve_quiz *)

max_iterations == 5

\* the value of line 159
ErrMaxIterations == <<"E">>

\* the pieces an LLM response is put together from
Fragments == {
    <<"R">>, <<"C">>, <<"S">>, <<"A">>, <<"U">>, <<"E">>,
    Fence \o <<"p", NL, "x">> \o Fence,      \* a python block holding code
    Fence \o <<"p", NL>>,                    \* the opening of a python block
    Fence, <<NL>>, <<" ">>, <<"x">> }

RECURSIVE Concat(_)
Concat(ss) == IF ss = <<>> THEN <<>> ELSE Head(ss) \o Concat(Tail(ss))

\* what client.chat may return: any text, the '[Error: ...]' sentinel of
\* client.py lines 105-107 being text without a marker
Responses == {Concat(fs) : fs \in UNION {[1..n -> Fragments] : n \in 0..MaxFrags}}

\* the tests and extractions solve_with_llm makes on a response
Observe(response) ==
    [ run       |-> contains(response, <<"R">>),                       \* line 96
      code      |-> extract_code(response) # <<>>,                      \* lines 97-98
      scrape    |-> contains(response, <<"C">>),                       \* line 119
      url       |-> Leftmost([a \in 1..Len(response) |-> MatchUrl(response, a)]) # {}, \* lines 120-121
      submit    |-> contains(response, <<"S">>),                       \* line 137
      marker    |-> contains(response, <<"A">>),                       \* line 137
      extracted |-> extract_answer(response) ]                          \* lines 138, 143

Observations == {Observe(r) : r \in Responses}

NoObservation ==
    [run |-> FALSE, code |-> FALSE, scrape |-> FALSE, url |-> FALSE,
     submit |-> FALSE, marker |-> FALSE, extracted |-> <<>>]

\* the if chain with the submit test moved to the front
Dispatch_SubmitFirst(o) ==
    IF o.submit \/ o.marker THEN "Submit"
    ELSE IF o.run /\ o.code THEN "RunCode"
    ELSE IF o.scrape /\ o.url THEN "Scrape"
    ELSE "NoTool"

\* the branch of the if chain of lines 95-156 a response takes
Dispatch(o) ==
    IF o.run /\ o.code THEN "RunCode"
    ELSE IF o.scrape /\ o.url THEN "Scrape"
    ELSE IF o.submit \/ o.marker THEN "Submit"
    ELSE "NoTool"

None == "None"

\* how exec(code, env, env) of code.py line 73 ends: it returns, or raises
\* an Exception whose str() is empty or not, or raises a BaseException
\* that is no Exception (SystemExit, KeyboardInterrupt)
ExecOutcomes ==
    {[raised |-> "no", message |-> ""]}
    \cup [raised : {"Exception", "BaseException"}, message : {"", "msg"}]

NoExecution == [raised |-> "none", message |-> ""]

\* helpers/code.py lines 47-88, for the outcomes that run_code returns from
run_code(outcome) ==
    [output |-> "output",
     error |-> IF outcome.raised = "Exception" THEN outcome.message ELSE None]

\* agent.py lines 102-107: `if result["error"]:` is false for None and for ""
ToolResult(result) ==
    IF result.error \notin {None, ""} THEN "CODE ERROR" ELSE "CODE OUTPUT"

NotDriver == <<cleanVars, chainVars, pureVars>>

DriverIdle ==
    /\ d_pc = "idle"
    /\ iteration = 0
    /\ messages = <<>>
    /\ last = NoObservation
    /\ dispatched = "none"
    /\ final_answer = <<>>
    /\ exhausted = FALSE
    /\ posted = <<>>
    /\ llm_calls = 0
    /\ tool_calls = 0
    /\ answerless = TRUE
    /\ executed = NoExecution

DriverStart ==
    /\ d_pc = "solve_quiz"
    /\ iteration = 0
    /\ messages = <<>>
    /\ last = NoObservation
    /\ dispatched = "none"
    /\ final_answer = <<>>
    /\ exhausted = FALSE
    /\ posted = <<>>
    /\ llm_calls = 0
    /\ tool_calls = 0
    /\ answerless = TRUE
    /\ executed = NoExecution

\* solve_quiz lines 37-44 and solve_with_llm lines 82-85: the page is
\* scraped and converted and the conversation starts with the context
ScrapeConvert ==
    /\ d_pc = "solve_quiz"
    /\ d_pc' = "loop"
    /\ messages' = << <<"user", "context">> >>
    /\ UNCHANGED <<iteration, last, dispatched, final_answer, exhausted, posted, llm_calls,
                   tool_calls, answerless, executed, NotDriver>>

\* solve_quiz lines 38-41: scrape or convert raises
ScrapeConvertRaises ==
    /\ d_pc = "solve_quiz"
    /\ d_pc' = "raised"
    /\ UNCHANGED <<iteration, messages, last, dispatched, final_answer, exhausted, posted,
                   llm_calls, tool_calls, answerless, executed, NotDriver>>

\* lines 87-93: one more iteration, client.chat returns a response
Chat ==
    /\ d_pc = "loop"
    /\ iteration < max_iterations
    /\ \E o \in Observations :
          /\ last' = o
          /\ answerless' = (answerless /\ ~o.submit /\ ~o.marker /\ o.extracted = <<>>)
    /\ llm_calls' = llm_calls + 1
    /\ dispatched' = "none"
    /\ d_pc' = "dispatch"
    /\ executed' = NoExecution
    /\ UNCHANGED <<iteration, messages, final_answer, exhausted, posted, tool_calls, NotDriver>>

\* lines 96-116: the code is executed once and its result appended; the
\* round never calls extract_answer, so the extraction is not kept
RunCode ==
    /\ d_pc = "dispatch"
    /\ Dispatch(last) = "RunCode"
    /\ \E outcome \in ExecOutcomes :
          /\ outcome.raised # "BaseException"
          /\ executed' = outcome
          /\ messages' = messages \o << <<"assistant", "response">>,
                                        <<"user", ToolResult(run_code(outcome))>> >>
    /\ last' = [last EXCEPT !.extracted = <<>>]
    /\ tool_calls' = tool_calls + 1
    /\ dispatched' = "RunCode"
    /\ iteration' = iteration + 1
    /\ d_pc' = "loop"
    /\ UNCHANGED <<final_answer, exhausted, posted, llm_calls, answerless, NotDriver>>

\* line 100: execute raises outside run_code's try (runner.py line 50,
\* pd.read_csv on the collected CSV), or the code raises what
\* `except Exception` (code.py line 85) does not catch
RunCodeRaises ==
    /\ d_pc = "dispatch"
    /\ Dispatch(last) = "RunCode"
    /\ \/ executed' = NoExecution
       \/ \E outcome \in ExecOutcomes :
             /\ outcome.raised = "BaseException"
             /\ executed' = outcome
    /\ last' = [last EXCEPT !.extracted = <<>>]
    /\ tool_calls' = tool_calls + 1
    /\ dispatched' = "RunCode"
    /\ d_pc' = "tool_raised"
    /\ UNCHANGED <<iteration, messages, final_answer, exhausted, posted, llm_calls, answerless, NotDriver>>

Scrape_UserOnly ==
    /\ d_pc = "dispatch"
    /\ Dispatch(last) = "Scrape"
    /\ messages' = Append(messages, <<"user", "SCRAPED">>)
    /\ last' = [last EXCEPT !.extracted = <<>>]
    /\ tool_calls' = tool_calls + 1
    /\ dispatched' = "Scrape"
    /\ iteration' = iteration + 1
    /\ d_pc' = "loop"
    /\ UNCHANGED <<final_answer, exhausted, posted, llm_calls, answerless, executed, NotDriver>>

\* lines 119-134: the URL is scraped and the text appended
Scrape ==
    /\ d_pc = "dispatch"
    /\ Dispatch(last) = "Scrape"
    /\ messages' = messages \o << <<"assistant", "response">>, <<"user", "SCRAPED">> >>
    /\ last' = [last EXCEPT !.extracted = <<>>]
    /\ tool_calls' = tool_calls + 1
    /\ dispatched' = "Scrape"
    /\ iteration' = iteration + 1
    /\ d_pc' = "loop"
    /\ UNCHANGED <<final_answer, exhausted, posted, llm_calls, answerless, executed, NotDriver>>

\* line 129: scrape raises (web.py load_page, lines 74-87, catches nothing)
ScrapeRaises ==
    /\ d_pc = "dispatch"
    /\ Dispatch(last) = "Scrape"
    /\ last' = [last EXCEPT !.extracted = <<>>]
    /\ tool_calls' = tool_calls + 1
    /\ dispatched' = "Scrape"
    /\ d_pc' = "tool_raised"
    /\ UNCHANGED <<iteration, messages, final_answer, exhausted, posted, llm_calls, answerless, executed, NotDriver>>

\* lines 137-140: the extracted answer is returned, whatever it is
Submit ==
    /\ d_pc = "dispatch"
    /\ Dispatch(last) = "Submit"
    /\ final_answer' = last.extracted
    /\ dispatched' = "Submit"
    /\ d_pc' = "returned"
    /\ UNCHANGED <<iteration, messages, last, exhausted, posted, llm_calls, tool_calls, answerless, executed, NotDriver>>

\* lines 142-156: no tool found; an extracted answer is returned, otherwise
\* the LLM is asked to submit
NoTool ==
    /\ d_pc = "dispatch"
    /\ Dispatch(last) = "NoTool"
    /\ dispatched' = "NoTool"
    /\ IF last.extracted # <<>>
       THEN /\ final_answer' = last.extracted
            /\ d_pc' = "returned"
            /\ UNCHANGED <<iteration, messages>>
       ELSE /\ messages' = messages \o << <<"assistant", "response">>, <<"user", "nudge">> >>
            /\ iteration' = iteration + 1
            /\ d_pc' = "loop"
            /\ UNCHANGED final_answer
    /\ UNCHANGED <<last, exhausted, posted, llm_calls, tool_calls, answerless, executed, NotDriver>>

\* lines 158-159: the loop ran out
MaxIterations ==
    /\ d_pc = "loop"
    /\ iteration = max_iterations
    /\ final_answer' = ErrMaxIterations
    /\ exhausted' = TRUE
    /\ d_pc' = "returned"
    /\ UNCHANGED <<iteration, messages, last, dispatched, posted, llm_calls, tool_calls, answerless, executed, NotDriver>>

\* solve_quiz lines 46-60: whatever solve_with_llm returned is submitted
PostAnswer ==
    /\ d_pc = "returned"
    /\ posted' = Append(posted, final_answer)
    /\ d_pc' = "done"
    /\ UNCHANGED <<iteration, messages, last, dispatched, final_answer, exhausted, llm_calls,
                   tool_calls, answerless, executed, NotDriver>>

NextDriver ==
    \/ ScrapeConvert
    \/ ScrapeConvertRaises
    \/ Chat
    \/ RunCode
    \/ RunCodeRaises
    \/ Scrape
    \/ ScrapeRaises
    \/ Submit
    \/ NoTool
    \/ MaxIterations
    \/ PostAnswer

--------------------------------------------------------------------------
(* server.py and simple_server.py: process_quiz *)

QUIZ_TIMEOUT == 170

max_retries_per_question == 2

\* the quiz URLs of a chain
URLs == {"u1", "u2"}

\* how long a solve, a page load and a submission may take, in seconds
SolveDurations == {40, 60, 85, 120}

LoadDurations == {10, 40}

SubmitDurations == {5, 25}

Min(a, b) == IF a <= b THEN a ELSE b

DeadlineReached_Late(elapsed) == elapsed > QUIZ_TIMEOUT

\* server.py lines 114 and 123, simple_server.py line 420
DeadlineReached(elapsed) == elapsed >= QUIZ_TIMEOUT

\* server.py line 131: timeout=min(90, remaining_time)
SolveTimeout(remaining) == Min(90, remaining)

RetryAllowed_Always(n) == n < max_retries_per_question

\* server.py line 189
RetryAllowed(n) == n < max_retries_per_question - 1

\* server.py line 160: the size ceiling of a submission, in bytes
PAYLOAD_LIMIT == 1000000

\* the sizes of the serialized submission: at the ceiling and one byte over
PayloadSizes == {PAYLOAD_LIMIT, PAYLOAD_LIMIT + 1}

TooLarge_TwiceTheLimit(size) == size > 2 * PAYLOAD_LIMIT

\* server.py line 160: payload_size > 1_000_000
TooLarge(size) == size > PAYLOAD_LIMIT

\* one more for `key`, the count staying at MaxCount once it is there
CountUp(counts, key) == [counts EXCEPT ![key] = Min(MaxCount, @ + 1)]

\* what submit_answer may give back: a failure, a 2xx body that is no
\* JSON object, or a grading with the next URL (None when absent)
Gradings ==
    {[kind |-> "failed", correct |-> FALSE, url |-> None],
     [kind |-> "not_dict", correct |-> FALSE, url |-> None]}
    \cup [kind : {"graded"}, correct : BOOLEAN, url : URLs \cup {None}]

NoGrading == [kind |-> "none", correct |-> FALSE, url |-> None]

NewStats == [total_questions |-> 0, correct |-> 0, wrong |-> 0, skipped |-> 0,
             questions |-> <<>>]

RecordCorrect_TotalOnly(st, url) ==
    [st EXCEPT !.total_questions = @ + 1,
               !.questions = Append(@, <<url, "correct">>)]

\* server.py lines 180-182
RecordCorrect(st, url) ==
    [st EXCEPT !.correct = @ + 1, !.total_questions = @ + 1,
               !.questions = Append(@, <<url, "correct">>)]

RecordWrong_Twice(st, url) ==
    [st EXCEPT !.wrong = @ + 2, !.total_questions = @ + 2,
               !.questions = Append(Append(@, <<url, "wrong">>), <<url, "wrong">>)]

\* server.py lines 194-196 and 201-203
RecordWrong(st, url) ==
    [st EXCEPT !.wrong = @ + 1, !.total_questions = @ + 1,
               !.questions = Append(@, <<url, "wrong">>)]

NotChain == <<cleanVars, driverVars, pureVars>>

ChainIdle ==
    /\ variant = "none"
    /\ p_pc = "idle"
    /\ current_url = None
    /\ clock = 0
    /\ remaining_time = 0
    /\ attempt = 0
    /\ sub_timeout = 0
    /\ stats = NewStats
    /\ grading = NoGrading
    /\ tries = <<>>
    /\ ended_by = "none"
    /\ timed_out = FALSE
    /\ stats_saved = FALSE
    /\ solve_calls = 0
    /\ load_calls = 0
    /\ submit_calls = 0
    /\ payload_size = 0
    /\ solves = [u \in URLs |-> 0]
    /\ given = [u \in URLs |-> 0]

\* server.py lines 98-109, simple_server.py lines 413-416
ChainStart ==
    /\ variant \in {"server", "simple"}
    /\ p_pc = "while"
    /\ current_url \in URLs
    /\ clock = 0
    /\ remaining_time = 0
    /\ attempt = 0
    /\ sub_timeout = 0
    /\ stats = NewStats
    /\ grading = NoGrading
    /\ tries = <<>>
    /\ ended_by = "none"
    /\ timed_out = FALSE
    /\ stats_saved = FALSE
    /\ solve_calls = 0
    /\ load_calls = 0
    /\ submit_calls = 0
    /\ payload_size = 0
    /\ solves = [u \in URLs |-> 0]
    /\ given = [u \in URLs |-> 0]

\* `continue`, or the end of the for body: on to the next attempt
NextAttempt(how) ==
    /\ attempt' = attempt + 1
    /\ tries' = Append(tries, how)
    /\ p_pc' = "attempt"

\* `break` out of the for loop: back to the while test, its else skipped
BreakFor(how) ==
    /\ tries' = Append(tries, how)
    /\ p_pc' = "while"
    /\ UNCHANGED attempt

\* `while current_url:` is false (server.py line 111, simple_server.py line 418)
ChainEnds ==
    /\ p_pc = "while"
    /\ current_url = None
    /\ p_pc' = "stats"
    /\ ended_by' = "chain_end"
    /\ UNCHANGED <<variant, current_url, clock, remaining_time, attempt, sub_timeout,
                   stats, grading, tries, timed_out, stats_saved,
                   solve_calls, load_calls, submit_calls, payload_size, solves, given,
                   NotChain>>

\* the deadline test before a question: server.py lines 113-116,
\* simple_server.py lines 419-422
DeadlineStop ==
    /\ p_pc = "while"
    /\ current_url # None
    /\ DeadlineReached(clock)
    /\ p_pc' = "stats"
    /\ ended_by' = "deadline"
    /\ UNCHANGED <<variant, current_url, clock, remaining_time, attempt, sub_timeout,
                   stats, grading, tries, timed_out, stats_saved,
                   solve_calls, load_calls, submit_calls, payload_size, solves, given,
                   NotChain>>

\* server.py lines 118-121: a question starts
StartQuestion ==
    /\ variant = "server"
    /\ p_pc = "while"
    /\ current_url # None
    /\ ~DeadlineReached(clock)
    /\ remaining_time' = QUIZ_TIMEOUT - clock
    /\ attempt' = 0
    /\ tries' = <<>>
    /\ p_pc' = "attempt"
    /\ UNCHANGED <<variant, current_url, clock, sub_timeout, stats, grading, ended_by,
                   timed_out, stats_saved, solve_calls, load_calls, submit_calls, payload_size,
                   solves, given,
                   NotChain>>

\* server.py lines 217-220: the for loop ran out, its else clause runs
RetriesExhausted ==
    /\ variant = "server"
    /\ p_pc = "attempt"
    /\ attempt = max_retries_per_question
    /\ current_url' = None
    /\ p_pc' = "while"
    /\ UNCHANGED <<variant, clock, remaining_time, attempt, sub_timeout, stats, grading,
                   tries, ended_by, timed_out, stats_saved,
                   solve_calls, load_calls, submit_calls, payload_size, solves, given,
                   NotChain>>

\* server.py lines 123-125: the deadline test before an attempt returns
RetryDeadlineReturn ==
    /\ variant = "server"
    /\ p_pc = "attempt"
    /\ attempt < max_retries_per_question
    /\ DeadlineReached(clock)
    /\ p_pc' = "returned"
    /\ ended_by' = "retry_deadline"
    /\ UNCHANGED <<variant, current_url, clock, remaining_time, attempt, sub_timeout,
                   stats, grading, tries, timed_out, stats_saved,
                   solve_calls, load_calls, submit_calls, payload_size, solves, given,
                   NotChain>>

\* server.py lines 127-132: solve is awaited under its timeout
StartSolve ==
    /\ variant = "server"
    /\ p_pc = "attempt"
    /\ attempt < max_retries_per_question
    /\ ~DeadlineReached(clock)
    /\ sub_timeout' = SolveTimeout(remaining_time)
    /\ solve_calls' = solve_calls + 1
    /\ solves' = CountUp(solves, current_url)
    /\ p_pc' = "solving"
    /\ UNCHANGED <<variant, current_url, clock, remaining_time, attempt, stats, grading,
                   tries, ended_by, timed_out, stats_saved, load_calls, submit_calls, payload_size,
                   given,
                   NotChain>>

\* server.py lines 211-213: asyncio.TimeoutError, "moving on"
SolveTimesOut ==
    /\ variant = "server"
    /\ p_pc = "solving"
    /\ \E d \in SolveDurations : d >= sub_timeout
    /\ clock' = clock + sub_timeout
    /\ timed_out' = TRUE
    /\ BreakFor("timeout")
    /\ UNCHANGED <<variant, current_url, remaining_time, sub_timeout, stats, grading,
                   ended_by, stats_saved, solve_calls, load_calls, submit_calls, payload_size, solves, given,
                   NotChain>>

\* server.py lines 134-136 (success is false) and 214-215 (solve,
\* parse_answer or json.dumps raises): next attempt
AttemptFails ==
    /\ variant = "server"
    /\ p_pc = "solving"
    /\ \E d \in SolveDurations :
          /\ d <= sub_timeout
          /\ clock' = clock + d
    /\ \E how \in {"solve_failed", "exception"} : NextAttempt(how)
    /\ UNCHANGED <<variant, current_url, remaining_time, sub_timeout, stats, grading,
                   ended_by, timed_out, stats_saved, solve_calls, load_calls,
                   submit_calls, payload_size, solves, given,
                   NotChain>>

\* server.py lines 156-164: the payload is over 1 MB, `continue`
PayloadTooLarge ==
    /\ variant = "server"
    /\ p_pc = "solving"
    /\ \E d \in SolveDurations :
          /\ d <= sub_timeout
          /\ clock' = clock + d
    /\ \E size \in PayloadSizes :
          /\ TooLarge(size)
          /\ payload_size' = size
    /\ NextAttempt("oversize")
    /\ UNCHANGED <<variant, current_url, remaining_time, sub_timeout, stats, grading,
                   ended_by, timed_out, stats_saved, solve_calls, load_calls,
                   submit_calls, solves, given,
                   NotChain>>

\* server.py lines 142-144: no submit URL in the result
NoSubmitUrl ==
    /\ variant = "server"
    /\ p_pc = "solving"
    /\ \E d \in SolveDurations :
          /\ d <= sub_timeout
          /\ clock' = clock + d
    /\ BreakFor("no_submit_url")
    /\ UNCHANGED <<variant, current_url, remaining_time, sub_timeout, stats, grading,
                   ended_by, timed_out, stats_saved, solve_calls, load_calls,
                   submit_calls, payload_size, solves, given,
                   NotChain>>

\* server.py lines 134-169: the solve succeeded and the answer is sent
SubmitAnswer ==
    /\ variant = "server"
    /\ p_pc = "solving"
    /\ \E d \in SolveDurations :
          /\ d <= sub_timeout
          /\ clock' = clock + d
    /\ \E size \in PayloadSizes :
          /\ ~TooLarge(size)
          /\ payload_size' = size
    /\ submit_calls' = submit_calls + 1
    /\ p_pc' = "submitting"
    /\ UNCHANGED <<variant, current_url, remaining_time, attempt, sub_timeout, stats,
                   grading, tries, ended_by, timed_out, stats_saved, solve_calls,
                   load_calls, solves, given,
                   NotChain>>

\* server.py lines 171-209: the result of submit_answer is acted on
SubmitReturns ==
    /\ variant = "server"
    /\ p_pc = "submitting"
    /\ \E d \in SubmitDurations : clock' = clock + d
    /\ \E g \in Gradings :
          /\ grading' = g
          /\ given' = IF g.url # None THEN CountUp(given, g.url) ELSE given
          /\ CASE g.kind = "failed" ->
                    /\ NextAttempt("submit_failed")
                    /\ UNCHANGED <<current_url, stats>>
               [] g.kind = "not_dict" ->
                    /\ current_url' = None
                    /\ BreakFor("not_dict")
                    /\ UNCHANGED stats
               [] g.kind = "graded" /\ g.correct ->
                    /\ stats' = RecordCorrect(stats, current_url)
                    /\ current_url' = g.url
                    /\ BreakFor("correct")
               [] g.kind = "graded" /\ ~g.correct /\ RetryAllowed(attempt) ->
                    /\ NextAttempt("wrong")
                    /\ UNCHANGED <<current_url, stats>>
               [] g.kind = "graded" /\ ~g.correct /\ ~RetryAllowed(attempt)
                     /\ g.url # None ->
                    /\ stats' = RecordWrong(stats, current_url)
                    /\ current_url' = g.url
                    /\ BreakFor("wrong")
               [] g.kind = "graded" /\ ~g.correct /\ ~RetryAllowed(attempt)
                     /\ g.url = None ->
                    /\ stats' = RecordWrong(stats, current_url)
                    /\ NextAttempt("wrong")
                    /\ UNCHANGED current_url
    /\ UNCHANGED <<variant, remaining_time, sub_timeout, ended_by, timed_out,
                   stats_saved, solve_calls, load_calls, submit_calls, payload_size, solves,
                   NotChain>>

\* simple_server.py line 432: timeout=min(30, remaining)
LoadTimeout(remaining) == Min(30, remaining)

\* simple_server.py line 438: timeout=min(60, remaining - 30)
SimpleSolveTimeout(remaining) == Min(60, remaining - 30)

\* simple_server.py lines 456-465 ("total" is total_questions here)
SimpleRecord(st, correct) ==
    IF correct THEN [st EXCEPT !.total_questions = @ + 1, !.correct = @ + 1]
    ELSE [st EXCEPT !.total_questions = @ + 1, !.wrong = @ + 1]

\* a `break` out of the while loop of simple_server.py
SimpleBreak(why) ==
    /\ p_pc' = "stats"
    /\ ended_by' = why

\* simple_server.py lines 424-432: a question starts with the page load
SimpleStartQuestion ==
    /\ variant = "simple"
    /\ p_pc = "while"
    /\ current_url # None
    /\ ~DeadlineReached(clock)
    /\ remaining_time' = QUIZ_TIMEOUT - clock
    /\ sub_timeout' = LoadTimeout(QUIZ_TIMEOUT - clock)
    /\ load_calls' = load_calls + 1
    /\ p_pc' = "loading"
    /\ UNCHANGED <<variant, current_url, clock, attempt, stats, grading, tries, ended_by,
                   timed_out, stats_saved, solve_calls, submit_calls, payload_size, solves, given,
                   NotChain>>

\* simple_server.py lines 429-438: the page is there, solve_quiz is awaited
SimplePageLoaded ==
    /\ variant = "simple"
    /\ p_pc = "loading"
    /\ \E d \in LoadDurations :
          /\ d <= sub_timeout
          /\ clock' = clock + d
    /\ sub_timeout' = SimpleSolveTimeout(remaining_time)
    /\ solve_calls' = solve_calls + 1
    /\ solves' = CountUp(solves, current_url)
    /\ p_pc' = "solving"
    /\ UNCHANGED <<variant, current_url, remaining_time, attempt, stats, grading, tries,
                   ended_by, timed_out, stats_saved, load_calls, submit_calls, payload_size, given,
                   NotChain>>

\* simple_server.py lines 470-472: the page load or the solve times out;
\* a timeout that is not positive expires at once
SimpleTimesOut ==
    /\ variant = "simple"
    /\ \/ p_pc = "loading" /\ \E d \in LoadDurations : d >= sub_timeout
       \/ p_pc = "solving" /\ \E d \in SolveDurations : d >= sub_timeout
    /\ clock' = clock + (IF sub_timeout > 0 THEN sub_timeout ELSE 0)
    /\ timed_out' = TRUE
    /\ SimpleBreak("timeout")
    /\ UNCHANGED <<variant, current_url, remaining_time, attempt, sub_timeout, stats,
                   grading, tries, stats_saved, solve_calls, load_calls, submit_calls, payload_size,
                   solves, given,
                   NotChain>>

\* simple_server.py lines 440-442 (success is false) and 473-475 (load_page
\* or solve_quiz raises)
SimpleFails ==
    /\ variant = "simple"
    /\ \/ p_pc = "loading" /\ \E d \in LoadDurations : d <= sub_timeout /\ clock' = clock + d
       \/ p_pc = "solving" /\ \E d \in SolveDurations : d <= sub_timeout /\ clock' = clock + d
    /\ SimpleBreak("failed")
    /\ UNCHANGED <<variant, current_url, remaining_time, attempt, sub_timeout, stats,
                   grading, tries, timed_out, stats_saved, solve_calls, load_calls,
                   submit_calls, payload_size, solves, given,
                   NotChain>>

\* simple_server.py lines 435-452: the solve succeeded and the answer is sent
SimpleSubmitAnswer ==
    /\ variant = "simple"
    /\ p_pc = "solving"
    /\ \E d \in SolveDurations :
          /\ d <= sub_timeout
          /\ clock' = clock + d
    /\ submit_calls' = submit_calls + 1
    /\ p_pc' = "submitting"
    /\ UNCHANGED <<variant, current_url, remaining_time, attempt, sub_timeout, stats,
                   grading, tries, ended_by, timed_out, stats_saved, solve_calls,
                   load_calls, payload_size, solves, given,
                   NotChain>>

\* simple_server.py lines 454-468 and 473-475: the result of submit_answer
SimpleSubmitReturns ==
    /\ variant = "simple"
    /\ p_pc = "submitting"
    /\ \E d \in SubmitDurations : clock' = clock + d
    /\ \E g \in Gradings :
          /\ grading' = g
          /\ given' = IF g.url # None THEN CountUp(given, g.url) ELSE given
          /\ CASE g.kind = "failed" ->
                    /\ SimpleBreak("submit_failed")
                    /\ UNCHANGED <<current_url, stats>>
               [] g.kind = "not_dict" ->
                    \* line 456 counts it, line 458 raises on response.get
                    /\ stats' = [stats EXCEPT !.total_questions = @ + 1]
                    /\ SimpleBreak("failed")
                    /\ UNCHANGED current_url
               [] g.kind = "graded" ->
                    /\ stats' = SimpleRecord(stats, g.correct)
                    /\ current_url' = g.url
                    /\ p_pc' = "while"
                    /\ UNCHANGED ended_by
    /\ UNCHANGED <<variant, remaining_time, attempt, sub_timeout, tries, timed_out,
                   stats_saved, solve_calls, load_calls, submit_calls, payload_size, solves,
                   NotChain>>

SaveStats_Hangs ==
    /\ p_pc = "stats"
    /\ stats_saved' = TRUE
    /\ UNCHANGED <<variant, p_pc, current_url, clock, remaining_time, attempt, sub_timeout,
                   stats, grading, tries, ended_by, timed_out,
                   solve_calls, load_calls, submit_calls, payload_size, solves, given,
                   NotChain>>

\* server.py lines 222-243, simple_server.py lines 477-482: final statistics
SaveStats ==
    /\ p_pc = "stats"
    /\ stats_saved' = TRUE
    /\ p_pc' = "done"
    /\ UNCHANGED <<variant, current_url, clock, remaining_time, attempt, sub_timeout,
                   stats, grading, tries, ended_by, timed_out,
                   solve_calls, load_calls, submit_calls, payload_size, solves, given,
                   NotChain>>

--------------------------------------------------------------------------
(* Specification SpecClean: clean_answer applied to its own result *)

CleanAlphabet == {BT, NL, " ", "x"}

CleanInputs == UNION {[1..n -> CleanAlphabet] : n \in 0..MaxCleanLen}

CleanIdle ==
    /\ c_pc = "idle"
    /\ c_in = <<>>
    /\ c_once = <<>>
    /\ c_twice = <<>>

CleanStart ==
    /\ c_pc = "input"
    /\ c_in \in CleanInputs
    /\ c_once = <<>>
    /\ c_twice = <<>>

CleanOnce ==
    /\ c_pc = "input"
    /\ c_once' = clean_answer(c_in)
    /\ c_pc' = "once"
    /\ UNCHANGED <<c_in, c_twice, driverVars, chainVars, pureVars>>

CleanTwice ==
    /\ c_pc = "once"
    /\ c_twice' = clean_answer(c_once)
    /\ c_pc' = "twice"
    /\ UNCHANGED <<c_in, c_once, driverVars, chainVars, pureVars>>

NextClean == CleanOnce \/ CleanTwice

\* the fragments of the responses given to extract_answer
ExtractFragments == {<<"A">>, <<"S">>, <<NL>>, <<" ">>, <<"x">>, Fence}

ExtractInputs ==
    {Concat(fs) : fs \in UNION {[1..n -> ExtractFragments] : n \in 0..MaxExtractFrags}}

ExtractIdle ==
    /\ e_pc = "idle"
    /\ e_in = <<>>
    /\ e_out = <<>>

ExtractStart ==
    /\ e_pc = "input"
    /\ e_in \in ExtractInputs
    /\ e_out = <<>>

\* agent.py lines 162-212: one call of extract_answer
ExtractAnswer ==
    /\ e_pc = "input"
    /\ e_out' = extract_answer(e_in)
    /\ e_pc' = "done"
    /\ UNCHANGED <<e_in, normVars, scrapeVars, frontVars, reevalVars, taskVars, cleanVars, driverVars, chainVars>>

\* the fragments of the texts given to the normalization, by declared type
NormFragments(answer_type) ==
    CASE answer_type = "number" -> {<<"0">>, <<"4">>, <<".">>, <<"-">>, <<" ">>, <<NL>>, <<"x">>, Fence}
      [] answer_type = "boolean" -> {<<"t">>, <<"T">>, <<"f">>, <<"y">>, <<"n">>, <<"1">>, <<"0">>,
                                     <<" ">>, <<NL>>, <<"x">>}
      [] answer_type = "json" -> {<<"{">>, <<"}">>, <<"x">>, <<" ">>, <<NL>>, Fence}
      [] OTHER -> {<<"x">>, <<" ">>, <<NL>>, <<"[">>, <<"]">>, <<"#">>, <<BT>>, Fence}

AnswerTypes == {"number", "boolean", "json", "text"}

NormInputs(answer_type) ==
    {Concat(fs) : fs \in UNION {[1..n -> NormFragments(answer_type)] : n \in 0..MaxNormFrags}}

NoValue == Value("none", <<>>)

NormIdle ==
    /\ n_pc = "idle"
    /\ n_type = "text"
    /\ n_in = <<>>
    /\ n_out = Returned(<<>>)
    /\ n_parsed = NoValue

NormStart ==
    /\ n_pc = "input"
    /\ n_type \in AnswerTypes
    /\ n_in \in NormInputs(n_type)
    /\ n_out = Returned(<<>>)
    /\ n_parsed = NoValue

\* question_solver.py lines 307-367, the call returns
ExtractFinalAnswer ==
    /\ n_pc = "input"
    /\ extract_final_answer(n_in, n_type).raised = "none"
    /\ n_out' = extract_final_answer(n_in, n_type)
    /\ n_pc' = "extracted"
    /\ UNCHANGED <<n_type, n_in, n_parsed, extractVars, scrapeVars, frontVars, reevalVars, taskVars, cleanVars, driverVars, chainVars>>

\* question_solver.py lines 347 and 364: the call raises
ExtractFinalAnswerRaises ==
    /\ n_pc = "input"
    /\ extract_final_answer(n_in, n_type).raised # "none"
    /\ n_out' = extract_final_answer(n_in, n_type)
    /\ n_pc' = "raised"
    /\ UNCHANGED <<n_type, n_in, n_parsed, extractVars, scrapeVars, frontVars, reevalVars, taskVars, cleanVars, driverVars, chainVars>>

\* server.py lines 147 and 246-289: parse_answer on the answer of the solve
ParseAnswer ==
    /\ n_pc = "extracted"
    /\ n_parsed' = parse_answer(n_out.value, n_type)
    /\ n_pc' = "parsed"
    /\ UNCHANGED <<n_type, n_in, n_out, extractVars, scrapeVars, frontVars, reevalVars, taskVars, cleanVars, driverVars, chainVars>>

\* server.py lines 246-289: parse_answer on a text as it is
ParseRaw ==
    /\ n_pc = "input"
    /\ n_parsed' = parse_answer(n_in, n_type)
    /\ n_pc' = "parsed_raw"
    /\ UNCHANGED <<n_type, n_in, n_out, extractVars, scrapeVars, frontVars, reevalVars, taskVars, cleanVars, driverVars, chainVars>>

NextNorm == ExtractFinalAnswer \/ ExtractFinalAnswerRaises \/ ParseAnswer \/ ParseRaw

\* the quiz URLs: 'http://x/x?x' and 'http://x/x/x'
QuizUrls == {<<"h", ":", "/", "/", "x", "/", "x", "?", "x">>,
             <<"h", ":", "/", "/", "x", "/", "x", "/", "x">>}

\* group 1 of URL:\s*(\S+): one character at least
ScrapeUrls == UNION {[1..n -> {"h", "x", ":", "/", "?"}] : n \in 1..MaxRefLen}

ScrapeIdle ==
    /\ u_pc = "idle"
    /\ quiz_url = <<>>
    /\ scrape_url = <<>>
    /\ fetched = <<>>

ScrapeStart ==
    /\ u_pc = "matched"
    /\ quiz_url \in QuizUrls
    /\ scrape_url \in ScrapeUrls
    /\ fetched = <<>>

\* agent.py lines 124-129: the secondary fetch is called
ScrapeFetch ==
    /\ u_pc = "matched"
    /\ fetched' = ScrapeTarget(quiz_url, scrape_url)
    /\ u_pc' = "fetched"
    /\ UNCHANGED <<quiz_url, scrape_url, extractVars, normVars, frontVars, reevalVars, taskVars, cleanVars, driverVars, chainVars>>

NextScrape == ScrapeFetch

--------------------------------------------------------------------------
(* server.py lines 40-89 and simple_server.py lines 489-516: handle_quiz  *)

\* the value of a field of the body: absent (or null), the empty string,
\* a string, or a number other than 0
FieldValues == {"absent", "empty", "text", "number"}

SecretValues == {"absent", "empty", "k", "w", "number"}

\* what payload.get gives is false in `all([...])`
Falsy(v) == v \in {"absent", "empty"}

\* a request body: no JSON, JSON that is no object, or an object
Payloads ==
    {[kind |-> k, email |-> "absent", secret |-> "absent", url |-> "absent"] :
        k \in {"invalid", "array", "null"}}
    \cup [kind : {"object"}, email : FieldValues, secret : SecretValues, url : FieldValues]

FrontIdle ==
    /\ h_pc = "idle"
    /\ h_variant = "none"
    /\ SECRET_KEY = "empty"
    /\ payload = [kind |-> "invalid", email |-> "absent", secret |-> "absent", url |-> "absent"]
    /\ status_code = 0
    /\ content_url = "absent"
    /\ tasks_created = 0

FrontStart ==
    /\ h_pc = "received"
    /\ h_variant \in {"server", "simple"}
    /\ SECRET_KEY \in {"empty", "k"}
    /\ payload \in Payloads
    /\ status_code = 0
    /\ content_url = "absent"
    /\ tasks_created = 0

Respond_StartsTask(code) ==
    /\ status_code' = code
    /\ h_pc' = "answered"
    /\ tasks_created' = tasks_created + 1
    /\ UNCHANGED <<h_variant, SECRET_KEY, payload, content_url,
                   extractVars, normVars, scrapeVars, reevalVars, taskVars, cleanVars, driverVars, chainVars>>

\* the response: a status, and no task
Respond(code) ==
    /\ status_code' = code
    /\ h_pc' = "answered"
    /\ UNCHANGED <<h_variant, SECRET_KEY, payload, content_url, tasks_created,
                   extractVars, normVars, scrapeVars, reevalVars, taskVars, cleanVars, driverVars, chainVars>>

\* server.py lines 60-64, simple_server.py lines 496-499
InvalidJson ==
    /\ h_pc = "received"
    /\ payload.kind = "invalid"
    /\ Respond(400)

\* server.py line 67, simple_server.py line 501: payload.get on a value
\* that is no dict raises AttributeError, answered with 500
NotAnObject ==
    /\ h_pc = "received"
    /\ payload.kind \in {"array", "null"}
    /\ Respond(500)

\* server.py lines 71-73, simple_server.py lines 505-506
MissingFields ==
    /\ h_pc = "received"
    /\ payload.kind = "object"
    /\ Falsy(payload.email) \/ Falsy(payload.secret) \/ Falsy(payload.url)
    /\ Respond(400)

\* server.py lines 76-78, simple_server.py lines 508-509
InvalidSecret ==
    /\ h_pc = "received"
    /\ payload.kind = "object"
    /\ ~(Falsy(payload.email) \/ Falsy(payload.secret) \/ Falsy(payload.url))
    /\ payload.secret # SECRET_KEY
    /\ Respond(403)

\* simple_server.py line 511: quiz_url[:50] on a number raises TypeError,
\* answered with 500
UrlNotSliceable ==
    /\ h_pc = "received"
    /\ h_variant = "simple"
    /\ payload.kind = "object"
    /\ ~(Falsy(payload.email) \/ Falsy(payload.secret) \/ Falsy(payload.url))
    /\ payload.secret = SECRET_KEY
    /\ payload.url = "number"
    /\ Respond(500)

\* server.py lines 80-89, simple_server.py lines 511-516
Accepted ==
    /\ h_pc = "received"
    /\ payload.kind = "object"
    /\ ~(Falsy(payload.email) \/ Falsy(payload.secret) \/ Falsy(payload.url))
    /\ payload.secret = SECRET_KEY
    /\ h_variant = "simple" => payload.url # "number"
    /\ tasks_created' = tasks_created + 1
    /\ status_code' = 200
    /\ content_url' = payload.url
    /\ h_pc' = "answered"
    /\ UNCHANGED <<h_variant, SECRET_KEY, payload,
                   extractVars, normVars, scrapeVars, reevalVars, taskVars, cleanVars, driverVars, chainVars>>

NextFront ==
    \/ InvalidJson
    \/ NotAnObject
    \/ MissingFields
    \/ InvalidSecret
    \/ UrlNotSliceable
    \/ Accepted

--------------------------------------------------------------------------
(* run_reevals.py lines 10-57, over agent.py solve_quiz (lines 46-60) and   *)
(* core/submitter.py submit (lines 58-76)                                   *)

\* how post_json ends (helpers/web.py lines 44-47): a 2xx response with its
\* "correct" and "url", or raise_for_status or the transport raises
PostOutcomes ==
    [kind : {"ok"}, correct : BOOLEAN, url : URLs \cup {None}]
    \cup {[kind |-> k, correct |-> FALSE, url |-> None] : k \in {"http_error", "transport_error"}}

\* core/submitter.py lines 58-76
submit(outcome) ==
    IF outcome.kind = "ok"
    THEN [success |-> TRUE, correct |-> outcome.correct, next_url |-> outcome.url]
    ELSE [success |-> FALSE, correct |-> FALSE, next_url |-> None]

ReevalIdle ==
    /\ r_pc = "idle"
    /\ urls = <<>>
    /\ r_i = 0
    /\ results = <<>>
    /\ printed = <<>>
    /\ posts = <<>>
    /\ correct_count = 0
    /\ total_count = 0

\* run_reevals.py lines 12-14
ReevalStart ==
    /\ r_pc = "loop"
    /\ urls = <<"u1">>
    /\ r_i = 0
    /\ results = <<>>
    /\ printed = <<>>
    /\ posts = <<>>
    /\ correct_count = 0
    /\ total_count = 0

NotReeval == <<extractVars, normVars, scrapeVars, frontVars, taskVars, cleanVars, driverVars, chainVars>>

\* run_reevals.py lines 25-41: solve_quiz returns what submit returned
QuestionSolved ==
    /\ r_pc = "loop"
    /\ r_i < Len(urls)
    /\ \E outcome \in PostOutcomes :
          /\ outcome.url # None => Len(urls) < MaxQuestions
          /\ LET result == submit(outcome)
                 correct == result.correct
                 next_url == result.next_url
             IN /\ results' = Append(results, correct)
                /\ printed' = Append(printed, IF correct THEN "CORRECT" ELSE "WRONG")
                /\ urls' = IF next_url # None THEN Append(urls, next_url) ELSE urls
          /\ posts' = Append(posts, outcome.kind)
    /\ r_i' = r_i + 1
    /\ UNCHANGED <<r_pc, correct_count, total_count, NotReeval>>

\* run_reevals.py lines 43-46: solve_quiz raises before it submits
QuestionRaises ==
    /\ r_pc = "loop"
    /\ r_i < Len(urls)
    /\ results' = Append(results, FALSE)
    /\ printed' = Append(printed, "ERROR")
    /\ posts' = Append(posts, "none")
    /\ r_i' = r_i + 1
    /\ UNCHANGED <<r_pc, urls, correct_count, total_count, NotReeval>>

\* run_reevals.py lines 48-57: the loop is over, the summary
Summary ==
    /\ r_pc = "loop"
    /\ r_i = Len(urls)
    /\ correct_count' = Cardinality({k \in 1..Len(results) : results[k]})
    /\ total_count' = Len(results)
    /\ r_pc' = "done"
    /\ UNCHANGED <<urls, r_i, results, printed, posts, NotReeval>>

NextReeval ==
    \/ QuestionSolved
    \/ QuestionRaises
    \/ Summary

--------------------------------------------------------------------------
(* server.py: two process_quiz tasks created by handle_quiz (line 84) run  *)
(* in one process, interleaved at their awaits                              *)

Tasks == {1, 2}

\* server.py line 237: Path("quiz_stats.json"), the same for every task
stats_file == <<"quiz_stats.json">>

\* tools/helper/paths.py lines 13-21: a folder named after the URL's hash
get_session_dir(url) == <<"data", "sessions", url>>

Paths == {stats_file} \cup {get_session_dir(u) : u \in URLs}

NoFile == [writer |-> 0, stats |-> NewStats]

TaskIdle ==
    /\ t_pc = [c \in Tasks |-> "idle"]
    /\ t_url = [c \in Tasks |-> None]
    /\ t_stats = [c \in Tasks |-> NewStats]
    /\ files = [p \in Paths |-> NoFile]

\* server.py lines 98-109, for two requests with different quiz URLs
TaskStart ==
    /\ t_pc = [c \in Tasks |-> "while"]
    /\ t_url = (1 :> "u1") @@ (2 :> "u2")
    /\ t_stats = [c \in Tasks |-> NewStats]
    /\ files = [p \in Paths |-> NoFile]

NotTask == <<extractVars, normVars, scrapeVars, frontVars, reevalVars, cleanVars, driverVars, chainVars>>

\* server.py lines 111-220: one question of task c, from the solve, which
\* writes into the session folder of the URL, to the recorded grading
TaskQuestion(c) ==
    /\ t_pc[c] = "while"
    /\ t_url[c] # None
    /\ Len(t_stats[c].questions) < MaxChainLen
    /\ files' = [files EXCEPT ![get_session_dir(t_url[c])] =
                                  [writer |-> c, stats |-> NewStats]]
    /\ \E g \in Gradings :
          /\ g.kind = "graded"
          /\ g.correct \/ g.url # None
          /\ t_stats' = [t_stats EXCEPT ![c] =
                            IF g.correct THEN RecordCorrect(@, t_url[c])
                            ELSE RecordWrong(@, t_url[c])]
          /\ t_url' = [t_url EXCEPT ![c] = g.url]
    /\ UNCHANGED <<t_pc, NotTask>>

\* server.py lines 111-116: the chain of task c is over
TaskChainEnds(c) ==
    /\ t_pc[c] = "while"
    /\ t_url[c] = None \/ Len(t_stats[c].questions) = MaxChainLen
    /\ t_pc' = [t_pc EXCEPT ![c] = "stats"]
    /\ UNCHANGED <<t_url, t_stats, files, NotTask>>

\* server.py lines 235-241: task c writes its stats
TaskSaveStats(c) ==
    /\ t_pc[c] = "stats"
    /\ files' = [files EXCEPT ![stats_file] = [writer |-> c, stats |-> t_stats[c]]]
    /\ t_pc' = [t_pc EXCEPT ![c] = "done"]
    /\ UNCHANGED <<t_url, t_stats, NotTask>>

NextTask ==
    \E c \in Tasks :
        \/ TaskQuestion(c)
        \/ TaskChainEnds(c)
        \/ TaskSaveStats(c)

PureIdle == ExtractIdle /\ NormIdle /\ ScrapeIdle /\ FrontIdle /\ ReevalIdle /\ TaskIdle

InitTask == TaskStart /\ ExtractIdle /\ NormIdle /\ ScrapeIdle /\ FrontIdle /\ ReevalIdle /\ CleanIdle /\ DriverIdle /\ ChainIdle

SpecTask == InitTask /\ [][NextTask]_vars


InitReeval == ReevalStart /\ ExtractIdle /\ NormIdle /\ ScrapeIdle /\ FrontIdle /\ TaskIdle /\ CleanIdle /\ DriverIdle /\ ChainIdle

SpecReeval == InitReeval /\ [][NextReeval]_vars


InitFront == FrontStart /\ ExtractIdle /\ NormIdle /\ ScrapeIdle /\ ReevalIdle /\ TaskIdle /\ CleanIdle /\ DriverIdle /\ ChainIdle

SpecFront == InitFront /\ [][NextFront]_vars

InitScrape == ScrapeStart /\ ExtractIdle /\ NormIdle /\ FrontIdle /\ ReevalIdle /\ TaskIdle /\ CleanIdle /\ DriverIdle /\ ChainIdle

SpecScrape == InitScrape /\ [][NextScrape]_vars

InitNorm == NormStart /\ ExtractIdle /\ ScrapeIdle /\ FrontIdle /\ ReevalIdle /\ TaskIdle /\ CleanIdle /\ DriverIdle /\ ChainIdle

SpecNorm == InitNorm /\ [][NextNorm]_vars

NextExtract == ExtractAnswer

InitExtract == ExtractStart /\ NormIdle /\ ScrapeIdle /\ FrontIdle /\ ReevalIdle /\ TaskIdle /\ CleanIdle /\ DriverIdle /\ ChainIdle

SpecExtract == InitExtract /\ [][NextExtract]_vars

InitClean == CleanStart /\ DriverIdle /\ ChainIdle /\ PureIdle

SpecClean == InitClean /\ [][NextClean]_vars

NextChain ==
    \/ ChainEnds
    \/ DeadlineStop
    \/ StartQuestion
    \/ RetriesExhausted
    \/ RetryDeadlineReturn
    \/ StartSolve
    \/ SolveTimesOut
    \/ AttemptFails
    \/ PayloadTooLarge
    \/ NoSubmitUrl
    \/ SubmitAnswer
    \/ SubmitReturns
    \/ SimpleStartQuestion
    \/ SimplePageLoaded
    \/ SimpleTimesOut
    \/ SimpleFails
    \/ SimpleSubmitAnswer
    \/ SimpleSubmitReturns
    \/ SaveStats

InitChain == ChainStart /\ CleanIdle /\ DriverIdle /\ PureIdle

SpecChain == InitChain /\ [][NextChain]_vars

\* every awaited call returns: a step of process_quiz that can be taken is taken
SpecChainLive == SpecChain /\ WF_vars(NextChain)

InitDriver == DriverStart /\ CleanIdle /\ ChainIdle /\ PureIdle

SpecDriver == InitDriver /\ [][NextDriver]_vars

--------------------------------------------------------------------------
(* C1: in a run of solve_with_llm in which no response holds a submit      *)
(* marker or an extractable answer, the driver makes exactly 5 LLM calls   *)
(* and ends with the max-iterations outcome.                               *)
C1_RoundBudget ==
    (d_pc \in {"returned", "done", "tool_raised"} /\ answerless)
        => (llm_calls = 5 /\ exhausted)

C3_RetryThenAdvance ==
    [][ /\ (/\ variant = "server"
            /\ p_pc = "submitting"
            /\ tries = <<"wrong">>
            /\ grading'.kind = "graded"
            /\ ~grading'.correct
            /\ grading'.url # None)
           => /\ current_url' = grading'.url
              /\ p_pc' = "while"
              /\ tries' = <<"wrong", "wrong">>
              /\ stats'.wrong = stats.wrong + 1
              /\ stats'.total_questions = stats.total_questions + 1
              /\ stats'.correct = stats.correct
              /\ stats'.skipped = stats.skipped
              /\ solve_calls' = solve_calls
        /\ (variant = "server" /\ solve_calls' # solve_calls)
           => Len(tries) < 2 ]_vars

C3_Witness ==
    /\ variant = "server"
    /\ p_pc = "while"
    /\ tries = <<"wrong", "wrong">>
    /\ grading.kind = "graded"
    /\ current_url = grading.url
    /\ current_url # None
    /\ stats.wrong = 1
    /\ stats.total_questions = 1

(* C4: in process_quiz of server.py and of simple_server.py, when 170 s or *)
(* more of chain time have passed at the test before a question, the next  *)
(* step is the final statistics: no solve, page load or submission is      *)
(* started and the counters are the ones accumulated so far.               *)
C4_DeadlineHardStop ==
    [][ (p_pc = "while" /\ current_url # None /\ clock >= 170)
          => /\ p_pc' = "stats"
             /\ stats' = stats
             /\ solve_calls' = solve_calls
             /\ load_calls' = load_calls
             /\ submit_calls' = submit_calls ]_vars

C4_Witness ==
    /\ p_pc = "stats"
    /\ ended_by = "deadline"
    /\ current_url # None
    /\ clock >= 170
    /\ stats.total_questions >= 1

(* C5: in process_quiz of server.py, once a solve attempt has exceeded its *)
(* sub-timeout the chain is over: no question and no solve attempt is      *)
(* started afterwards.                                                     *)
C5_TimeoutEndsChain ==
    (variant = "server" /\ timed_out) => p_pc \in {"while", "stats", "done"}

(* C6: in process_quiz of server.py, the sub-timeout of every solve        *)
(* attempt, a retry included, is at most the chain budget that remains     *)
(* when the attempt starts.                                                *)
C6_SubTimeoutWithinBudget ==
    (variant = "server" /\ p_pc = "solving") => clock + sub_timeout <= 170

(* C7: every way process_quiz of server.py ends has passed the final       *)
(* statistics step.                                                        *)
C7_AlwaysStats ==
    (variant = "server" /\ p_pc \in {"done", "returned"}) => stats_saved

(* C11: for a response whose only marker is one ANSWER: followed by text   *)
(* that does not open with a code fence, extract_answer gives that text    *)
(* without its surrounding white space, cut before the first double        *)
(* newline, every single newline before the cut kept in place.             *)
C11_OnlyAnswerMarker ==
    /\ Cardinality(Positions(e_in, "A")) = 1
    /\ ~contains(e_in, <<"S">>)
    /\ ~startswith(strip(From(e_in, find(e_in, <<"A">>) + 1), Whitespace), Fence)

C11_Expected ==
    LET text == strip(From(e_in, find(e_in, <<"A">>) + 1), Whitespace)
        blank == {i \in 1..(Len(text) - 1) : text[i] = NL /\ text[i + 1] = NL}
        kept == IF blank = {} THEN text ELSE SubSeq(text, 1, MinOf(blank) - 1)
    IN  strip(kept, Whitespace)

C11_InlineExtraction ==
    (e_pc = "done" /\ C11_OnlyAnswerMarker) => e_out = C11_Expected

C11_Witness ==
    /\ e_pc = "done"
    /\ C11_OnlyAnswerMarker
    /\ e_in = <<"A", " ", "x", NL, "x">>
    /\ e_out = <<"x", NL, "x">>

(* C12: when a response holds a TOOL: SUBMIT marker with an ANSWER: after  *)
(* it, the answer extract_answer gives is the one extracted from the text  *)
(* after that marker, also when an ANSWER: stands before the marker.       *)
C12_SubmitScoping ==
    LET t == find(e_in, <<"S">>)
    IN  (e_pc = "done" /\ t # 0 /\ contains(From(e_in, t + 1), <<"A">>))
            => e_out = extract_answer(From(e_in, t + 1))

(* C13: with declared type number, a text that holds a number token is     *)
(* normalized to its first signed integer-or-decimal token, an integral    *)
(* value rendered without a fractional part; this is so for                *)
(* _extract_final_answer and for parse_answer.                             *)
C13_Expected ==
    LET token == TheOne(Leftmost([a \in 1..Len(n_in) |-> MatchNumber(n_in, a)]))
        dot == find(token, <<".">>)
        integral == dot = 0 \/ \A j \in (dot + 1)..Len(token) : token[j] = "0"
    IN  IF ~integral THEN token
        ELSE IntText(IF dot = 0 THEN token ELSE SubSeq(token, 1, dot - 1))

C13_NumberNormalization ==
    (/\ n_type = "number"
     /\ Leftmost([a \in 1..Len(n_in) |-> MatchNumber(n_in, a)]) # {})
        => /\ n_pc # "raised"
           /\ n_pc = "extracted" => n_out.value = C13_Expected
           /\ n_pc = "parsed_raw" => n_parsed.text = C13_Expected

(* C14: with declared type boolean, a text that is, whatever its case, one *)
(* of true/1/yes is normalized to true, one of false/0/no to false, and a  *)
(* text holding none of these words is passed through unmodified.          *)
C14_BooleanNormalization ==
    (n_type = "boolean" /\ n_pc \in {"extracted", "parsed_raw"})
        => LET out == IF n_pc = "extracted" THEN n_out.value ELSE n_parsed.text
           IN  /\ lower(n_in) \in {<<"t">>, <<"1">>, <<"y">>} => out = <<"t">>
               /\ lower(n_in) \in {<<"f">>, <<"0">>, <<"n">>} => out = <<"f">>
               /\ (\A i \in 1..Len(n_in) : n_in[i] \in {" ", NL, "x"}) => out = n_in

(* C15: with declared type json, for a text that holds a "{", closed or     *)
(* not, _extract_final_answer does not raise and gives the slice of the    *)
(* text from its first "{" to its last "}".                                *)
C15_JsonNormalization ==
    (n_type = "json" /\ n_pc \in {"extracted", "raised"} /\ contains(n_in, <<"{">>))
        => /\ n_pc = "extracted"
           /\ contains(n_in, <<"}">>)
                => n_out.value = SubSeq(n_in, find(n_in, <<"{">>), MaxOf(Positions(n_in, "}")))

(* C16: with declared type text, _extract_final_answer gives the raw value *)
(* with nothing but its surrounding white space removed (for a value that  *)
(* holds no code fence), all lines of a multi-line value kept.             *)
C16_TextNormalization ==
    (n_type = "text" /\ n_pc = "extracted" /\ ~contains(n_in, <<BT>>))
        => n_out.value = strip(n_in, Whitespace)

(* C17: in a SCRAPE round the URL given to the secondary fetch is the      *)
(* requested URL itself when that URL is absolute (it opens with a scheme) *)
(* and otherwise the requested URL resolved against the quiz URL.          *)
C17_ScrapeResolution ==
    u_pc = "fetched"
        => fetched = IF urlparse(scrape_url, <<>>).scheme # <<>> THEN scrape_url
                     ELSE urljoin(quiz_url, scrape_url)

(* C18: every POST / is answered with 400 when the body is no valid JSON   *)
(* or one of email, secret, url is missing or empty, whatever JSON value   *)
(* the body is; with 403 when the three are present and the secret is not  *)
(* the configured one; and otherwise with 200 and the url echoed.          *)
C18_FrontDoorStatus ==
    h_pc = "answered"
        => IF \/ payload.kind # "object"
              \/ Falsy(payload.email) \/ Falsy(payload.secret) \/ Falsy(payload.url)
           THEN status_code = 400
           ELSE IF payload.secret # SECRET_KEY THEN status_code = 403
           ELSE status_code = 200 /\ content_url = payload.url

C20_FailedSubmissionNotWrong ==
    \A k \in 1..Len(posts) :
        posts[k] \in {"http_error", "transport_error"} => printed[k] # "WRONG"

(* C22: when a submission is graded correct, process_quiz adds one to the  *)
(* correct and to the total counter, ends the attempts for that question    *)
(* and takes the response's next URL as current_url; with no next URL the   *)
(* chain ends and no solve, page load or submit call follows.               *)
C22_CorrectTransition ==
    [][ /\ (p_pc = "submitting" /\ grading'.kind = "graded" /\ grading'.correct)
              => /\ stats'.correct = stats.correct + 1
                 /\ stats'.total_questions = stats.total_questions + 1
                 /\ stats'.wrong = stats.wrong
                 /\ current_url' = grading'.url
                 /\ p_pc' = "while"
        /\ (p_pc \in {"while", "stats", "done"} /\ current_url = None)
              => /\ p_pc' \in {"stats", "done"}
                 /\ solve_calls' = solve_calls
                 /\ load_calls' = load_calls
                 /\ submit_calls' = submit_calls ]_vars

C22_Witness ==
    /\ p_pc = "done"
    /\ grading.kind = "graded" /\ grading.correct /\ grading.url = None
    /\ ended_by = "chain_end"
    /\ stats.correct = 2 /\ stats.total_questions = 2
    /\ submit_calls = 2

(* C23: in process_quiz of server.py, when the last allowed attempt of a   *)
(* question is graded incorrect and the response names no next URL, the     *)
(* question is recorded as wrong once (wrong and total_questions plus one)  *)
(* and the chain ends with no further solve or submit call.                 *)
C23_ExhaustedWithoutNext ==
    [][ /\ (/\ variant = "server" /\ p_pc = "submitting"
            /\ attempt = max_retries_per_question - 1
            /\ grading'.kind = "graded" /\ ~grading'.correct /\ grading'.url = None)
              => /\ stats'.wrong = stats.wrong + 1
                 /\ stats'.total_questions = stats.total_questions + 1
                 /\ stats'.correct = stats.correct
                 /\ Len(stats'.questions) = Len(stats.questions) + 1
                 /\ attempt' = max_retries_per_question
                 /\ p_pc' = "attempt"
        /\ (variant = "server" /\ p_pc = "attempt" /\ attempt = max_retries_per_question)
              => /\ current_url' = None
                 /\ p_pc' = "while"
                 /\ stats' = stats
                 /\ solve_calls' = solve_calls /\ submit_calls' = submit_calls
        /\ (variant = "server" /\ p_pc \in {"while", "stats", "done"} /\ current_url = None)
              => /\ stats' = stats
                 /\ solve_calls' = solve_calls /\ submit_calls' = submit_calls ]_vars

C23_Witness ==
    /\ variant = "server"
    /\ p_pc = "done"
    /\ tries = <<"wrong", "wrong">>
    /\ grading.kind = "graded" /\ ~grading.correct /\ grading.url = None
    /\ stats.wrong = 1 /\ stats.total_questions = 1
    /\ solve_calls = 2 /\ submit_calls = 2

(* C24: in every RunCode round in which the execution of the code raised, *)
(* whatever the message of the exception, the user message appended for    *)
(* the round is 'CODE ERROR: <message>' with the submit instruction; 'CODE  *)
(* OUTPUT:' is appended only when the execution did not raise; the code is  *)
(* executed exactly once in the round.                                      *)
C24_ExecutionErrorsSurfaced ==
    [][ (d_pc = "dispatch" /\ dispatched' = "RunCode")
          => /\ tool_calls' = tool_calls + 1
             /\ executed'.raised \in {"Exception", "BaseException"}
                  => messages' = messages \o << <<"assistant", "response">>,
                                                <<"user", "CODE ERROR">> >>
             /\ executed'.raised = "no"
                  => messages' = messages \o << <<"assistant", "response">>,
                                                <<"user", "CODE OUTPUT">> >> ]_vars

(* C25: one invocation of solve_with_llm performs at most 4 tool           *)
(* invocations (code executions plus secondary fetches), at most one in     *)
(* each round, the 5th round being a submit attempt that executes no tool.  *)
C25_ToolBudget ==
    /\ tool_calls <= llm_calls
    /\ tool_calls <= max_iterations - 1

(* C26: in one run of process_quiz of server.py, whatever the solve        *)
(* outcomes and the gradings, as long as the grader names no URL twice,     *)
(* solve is called at most max_retries_per_question times for any one URL.  *)
C26_AttemptCapPerUrl ==
    (variant = "server" /\ \A u \in URLs : given[u] <= 1)
        => \A u \in URLs : solves[u] <= max_retries_per_question

(* C27: throughout process_quiz the total counter equals correct + wrong   *)
(* and no counter decreases; in server.py skipped stays 0 and the           *)
(* questions list has exactly total_questions entries.                      *)
C27_StatsConsistency ==
    /\ [](/\ stats.total_questions = stats.correct + stats.wrong
          /\ variant = "server" => /\ stats.skipped = 0
                                   /\ Len(stats.questions) = stats.total_questions)
    /\ [][ /\ stats'.total_questions >= stats.total_questions
           /\ stats'.correct >= stats.correct
           /\ stats'.wrong >= stats.wrong ]_vars

(* C28: at the k-th LLM call of solve_with_llm the conversation is the     *)
(* initial user message followed by k-1 (assistant, user) pairs, so the     *)
(* roles alternate and the last message is a user message; no system        *)
(* message is stored in it, and messages in it are never changed or removed.*)
C28_ConversationShape ==
    /\ [](d_pc = "dispatch"
            => /\ Len(messages) = 2 * llm_calls - 1
               /\ messages[1] = <<"user", "context">>
               /\ \A k \in 1..Len(messages) :
                     messages[k][1] = (IF k % 2 = 1 THEN "user" ELSE "assistant"))
    /\ [][ (d_pc \in {"loop", "dispatch"})
             => /\ Len(messages') >= Len(messages)
                /\ SubSeq(messages', 1, Len(messages)) = messages ]_vars

C28_Witness ==
    /\ d_pc = "dispatch"
    /\ llm_calls = max_iterations
    /\ Len(messages) = 2 * max_iterations - 1
    /\ messages[2 * max_iterations - 1] = <<"user", "SCRAPED">>

(* C29: handle_quiz starts the background process_quiz task if and only if *)
(* it answers 200, and then exactly one; a request answered 400 or 403      *)
(* starts no chain, so no solve and no submission is made for it.           *)
C29_ChainOnlyWhenAccepted ==
    /\ h_pc = "received" => tasks_created = 0
    /\ h_pc = "answered"
         => /\ tasks_created = (IF status_code = 200 THEN 1 ELSE 0)
            /\ status_code \in {400, 403}
                 => (p_pc = "idle" /\ solve_calls = 0 /\ submit_calls = 0)

C29_Witness ==
    /\ h_pc = "answered"
    /\ status_code = 200
    /\ tasks_created = 1
    /\ payload.secret = SECRET_KEY

(* C30: every run of process_quiz, of server.py and of simple_server.py,   *)
(* eventually ends, whatever the grader answers (next URLs that form a      *)
(* cycle included) and whatever the solver does, when every awaited call    *)
(* returns and the clock advances across every solve attempt.               *)
C30_ChainTerminates == <>(p_pc \in {"done", "returned"})

C30_Witness ==
    /\ p_pc = "done"
    /\ ended_by = "deadline"
    /\ given["u1"] >= 2
    /\ solves["u1"] >= 3

(* C21: two process_quiz chains that run concurrently for different quiz  *)
(* URLs share no mutable state: nothing one chain wrote (its counters, its  *)
(* current URL, its saved stats, its working directory) is overwritten by   *)
(* the other, and after both have finished the saved stats of each chain    *)
(* are intact.                                                              *)
C21_ChainIsolation ==
    /\ []((\A c \in Tasks : t_pc[c] = "done")
            => \A c \in Tasks :
                  \E p \in Paths : files[p] = [writer |-> c, stats |-> t_stats[c]])
    /\ [][ \A p \in Paths :
              files[p].writer # 0 => files'[p].writer = files[p].writer ]_vars

(* C8: solve_with_llm never returns the empty string.                      *)
C8_NeverReturnsEmpty == d_pc \in {"returned", "done"} => final_answer # <<>>

(* C9: when solve_with_llm ends because 5 rounds elapsed with no answer,   *)
(* solve_quiz posts no answer to the grading endpoint.                     *)
C9_ExhaustionNotPosted == exhausted => posted = <<>>

(* C10: cleanup is idempotent: clean_answer(clean_answer(x)) =             *)
(* clean_answer(x) for every input x, fenced inputs included.              *)
C10_CleanIdempotent == c_pc = "twice" => c_twice = c_once

==========================================================================
